---- MODULE Spec2Model ----
(***************************************************************************)
(* Model of the study-notes assistant: the PDFNotesRAG retrieval object    *)
(* (src/src/rag_system.py), the Streamlit session shell (src/app.py) and   *)
(* the Tkinter desktop shell (src/tkview.py).                              *)
(*                                                                         *)
(* Strings are modelled as sequences of tokens: a file name is a sequence  *)
(* of segments (<<"unit1", ".pdf">> is "unit1.pdf"), a text is a sequence  *)
(* of text tokens, and concatenation is \o.  Library calls whose outcome   *)
(* depends on the environment (PDF parsing, embedding, the Chroma store,   *)
(* the remote Gemini model) take their outcome from a small set: a method  *)
(* of PDFNotesRAG is an operator giving the set of its possible outcomes,  *)
(* each a record of the object after the call (self), whether the call     *)
(* raised, what it returned (ret) and the external calls it made (calls).  *)
(***************************************************************************)
EXTENDS Integers, Sequences, FiniteSets, TLC

VARIABLES
    notes,          \* os.listdir(notes_directory): sequence of file records
    corrupt,        \* names of the files PyPDFLoader fails to parse
    persist,        \* the persist_directory on disk: [exists, entries]
    rag,            \* the PDFNotesRAG object exercised directly
    st_rag,         \* st.session_state.rag: <<>> (None) or <<object>>
    st_chat,        \* st.session_state.chat
    st_setup_done,  \* st.session_state.setup_done
    setup_runs,     \* number of setup_rag() calls made in the session
    accepted,       \* some setup_gemini_llm call on `rag` has returned True
    last,           \* the last operation: its name, result and external calls
    app,            \* the StudyAssistantApp object: its fields and its widgets
    setup_thread,   \* the thread running setup(): its position
    workers,        \* the threads running process_question(), in start order
    after_queue     \* the callbacks passed to root.after(0, ...), in order

vars == <<notes, corrupt, persist, rag, st_rag, st_chat, st_setup_done,
          setup_runs, accepted, last, app, setup_thread, workers,
          after_queue>>

envVars == <<notes, corrupt>>
webVars == <<st_rag, st_chat, st_setup_done, setup_runs>>
tkVars == <<app, setup_thread, workers, after_queue>>

----------------------------------------------------------------------------
(* Bounds of the model *)

MaxDocs == 3        \* documents held by one PDFNotesRAG object
MaxChat == 4        \* entries in the session transcript
MaxSetupRuns == 3   \* setup_rag() calls followed in one session
MaxQueries == 2     \* process_question() threads started by one desktop run

(* Program constants *)

DefaultK == 5       \* ask_question(self, question, k=5)

----------------------------------------------------------------------------
(* Values *)

None == "None"

\* What a call hands back is a record, whatever its shape: a list, a
\* handle, a boolean (ok) or a dictionary; NoValue when the call raised.
NoValue == [ none |-> None ]

\* File names are sequences of segments; the last one is the extension.

\* The page texts of each file of the corpus (one text per page).
PagesOf(name) ==
    CASE name = <<"unit1", ".pdf">> -> <<"t1">>
      [] name = <<"unit2", ".pdf">> -> <<"t2", "">>
      [] name = <<"unit1", ".pdf", ".pdf">> -> <<"t3">>
      [] OTHER -> <<>>

\* The notes directories considered, each as os.listdir returns it: empty,
\* without any PDF, one PDF, several PDFs, a PDF next to another file, and
\* two PDFs whose names differ only by a repeated extension.
Corpora ==
    { <<>>,
      << <<"readme", ".txt">> >>,
      << <<"unit1", ".pdf">> >>,
      << <<"unit2", ".pdf">>, <<"unit1", ".pdf">> >>,
      << <<"unit1", ".pdf", ".pdf">>, <<"unit1", ".pdf">> >>,
      << <<"readme", ".txt">>, <<"unit2", ".pdf">> >> }

Range(s) == { s[i] : i \in 1..Len(s) }

\* The separator of "\n\n".join(...): two line breaks, as one token.
BlankLine == "<blank line>"

\* str.strip() of a text token is empty.
Blank(text) == text \in { "", " ", BlankLine }

Questions == { "q1", "q2" }

----------------------------------------------------------------------------
(* PDFNotesRAG *)

\* __init__
NewRAG ==
    [ documents |-> <<>>, chunks |-> <<>>, vector_store |-> None,
      embeddings |-> None, genai_model |-> None ]

\* filename.endswith('.pdf')
EndsWithPdf(filename) ==
    Len(filename) > 0 /\ filename[Len(filename)] = ".pdf"

\* filename.replace('.pdf', ''): every occurrence is removed
ReplacePdf(filename) == SelectSeq(filename, LAMBDA seg : seg # ".pdf")

\* PyPDFLoader(file_path).load() followed by the metadata loop: one
\* document per page, page numbers 0-based.
PdfDocuments(filename) ==
    [ p \in 1..Len(PagesOf(filename)) |->
        [ page_content |-> PagesOf(filename)[p],
          unit |-> ReplacePdf(filename),
          source |-> filename,
          page |-> p - 1 ] ]

\* The for loop of load_pdfs over the listing `files`: a file that is not
\* a .pdf is ignored, a file whose load raises is reported and skipped.
RECURSIVE LoadLoop(_, _, _)
LoadLoop(files, bad, docs) ==
    IF files = <<>> THEN docs
    ELSE LET filename == Head(files)
             loaded ==
                 IF EndsWithPdf(filename) /\ filename \notin bad
                 THEN docs \o PdfDocuments(filename)
                 ELSE docs
         IN  LoadLoop(Tail(files), bad, loaded)

\* load_pdfs: os.listdir raising propagates; otherwise self.documents is
\* extended and returned.
load_pdfs(self, files, bad) ==
    LET docs == LoadLoop(files, bad, self.documents)
    IN  { [ self |-> self, raised |-> TRUE, ret |-> NoValue,
            calls |-> <<"os.listdir">> ],
          [ self |-> [self EXCEPT !.documents = docs], raised |-> FALSE,
            ret |-> [ list |-> docs ], calls |-> <<"os.listdir">> ] }

\* RecursiveCharacterTextSplitter.split_documents on pages shorter than
\* chunk_size: one chunk per page whose stripped text is not empty, with
\* the page's metadata.
SplitDocuments(docs) == SelectSeq(docs, LAMBDA d : ~Blank(d.page_content))

\* chunk_documents
chunk_documents(self) ==
    LET chunks == SplitDocuments(self.documents)
    IN  { [ self |-> [self EXCEPT !.chunks = chunks], raised |-> FALSE,
            ret |-> [ list |-> chunks ], calls |-> <<>> ] }

\* The persist_directory when nothing is there.
NoIndex == [ exists |-> FALSE, entries |-> <<>> ]

\* One embedding call per chunk embedded by Chroma.from_documents.
EmbedCalls(chunks) == [ i \in 1..Len(chunks) |-> "embed_documents" ]

\* Chroma.from_documents(documents, embedding, persist_directory): embeds
\* every chunk and adds the entries to the collection at the location.
FromDocuments(disk, chunks) ==
    [ exists |-> TRUE, entries |-> disk.entries \o chunks ]

\* Mutant of LoadsExisting: the index is always created anew.
LoadsExistingNever(disk) == FALSE

\* The branch of setup_vector_store on os.path.exists(persist_directory):
\* TRUE loads the existing index, FALSE creates a new one.
LoadsExisting(disk) == disk.exists

\* setup_vector_store: the embedding model is loaded first; then the
\* existing index is loaded, or a new one is created from self.chunks.
\* An exception of the embedding model or of Chroma propagates; a failed
\* creation may or may not leave the (empty) directory behind.
setup_vector_store(self, disk) ==
    LET withEmb == [self EXCEPT !.embeddings = "all-MiniLM-L6-v2"]
        built == [withEmb EXCEPT !.vector_store = "chroma"]
        noEmb == [ self |-> self, disk |-> disk, raised |-> TRUE,
                   ret |-> NoValue, calls |-> <<"HuggingFaceEmbeddings">> ]
    IN  IF LoadsExisting(disk)
        THEN { noEmb,
               [ self |-> withEmb, disk |-> disk, raised |-> TRUE,
                 ret |-> NoValue,
                 calls |-> <<"HuggingFaceEmbeddings", "Chroma">> ],
               [ self |-> built, disk |-> disk, raised |-> FALSE,
                 ret |-> [ handle |-> "chroma" ],
                 calls |-> <<"HuggingFaceEmbeddings", "Chroma">> ] }
        ELSE { noEmb,
               [ self |-> built, disk |-> FromDocuments(disk, self.chunks),
                 raised |-> FALSE, ret |-> [ handle |-> "chroma" ],
                 calls |-> <<"HuggingFaceEmbeddings", "Chroma.from_documents">>
                           \o EmbedCalls(self.chunks) ] }
             \cup
             { [ self |-> withEmb, disk |-> d, raised |-> TRUE, ret |-> NoValue,
                 calls |-> <<"HuggingFaceEmbeddings",
                             "Chroma.from_documents">> ] :
               d \in { disk, [ exists |-> TRUE, entries |-> <<>> ] } }

PrimaryModel == "gemini-2.0-flash"
FallbackModel == "gemini-2.0-flash-lite"

\* The external calls of setup_gemini_llm, as they appear in `calls`.
NewPrimaryModel == "GenerativeModel(gemini-2.0-flash)"
ProbePrimary == "gemini-2.0-flash.generate_content"
NewFallbackModel == "GenerativeModel(gemini-2.0-flash-lite)"
ProbeFallback == "gemini-2.0-flash-lite.generate_content"

\* The outcome of setup_gemini_llm: it returns `ret`; `primary` tells how
\* the primary attempt ended.
LlmOutcome(self, primary, ret, calls) ==
    [ self |-> self, primary |-> primary, raised |-> FALSE,
      ret |-> [ ok |-> ret ],
      calls |-> calls ]

\* The handler of the outer try (lines 111-124): the fallback model is
\* constructed and probed; it is accepted when the probe has a text.
TryFallback(self, primary, calls) ==
    LET withFallback == [self EXCEPT !.genai_model = FallbackModel]
        probed == calls \o <<NewFallbackModel, ProbeFallback>>
    IN  { \* GenerativeModel(...) raises
          LlmOutcome(self, primary, FALSE, calls \o <<NewFallbackModel>>),
          \* the probe raises, or test_response.text is empty
          LlmOutcome(withFallback, primary, FALSE, probed),
          \* the probe answers
          LlmOutcome(withFallback, primary, TRUE, probed) }

\* The else branch of the primary probe (lines 107-109): the test response
\* was empty.
PrimaryProbeEmpty(self, primary, calls) ==
    { LlmOutcome(self, primary, FALSE, calls) }

\* setup_gemini_llm
setup_gemini_llm(self) ==
    LET withPrimary == [self EXCEPT !.genai_model = PrimaryModel]
        c1 == <<"genai.configure">>
        c2 == c1 \o <<NewPrimaryModel>>
        c3 == c2 \o <<ProbePrimary>>
    IN  TryFallback(self, "configure raises", c1)
        \cup TryFallback(self, "GenerativeModel raises", c2)
        \cup TryFallback(withPrimary, "probe raises", c3)
        \cup PrimaryProbeEmpty(withPrimary, "probe empty", c3)
        \cup { LlmOutcome(withPrimary, "probe ok", TRUE, c3) }

\* retriever.invoke(question) with search_kwargs k: the entries of the
\* index ranked by similarity to the question, the first k of them.  The
\* ranking is the embedding model's, any order of distinct entries.
Search(entries, k) ==
    LET n == IF k < Len(entries) THEN k ELSE Len(entries)
    IN  { [ i \in 1..n |-> entries[ranks[i]] ] :
            ranks \in { r \in [1..n -> 1..Len(entries)] :
                          \A i, j \in 1..n : i # j => r[i] # r[j] } }

\* "\n\n".join([doc.page_content for doc in relevant_docs])
RECURSIVE JoinContext(_)
JoinContext(docs) ==
    IF docs = <<>> THEN <<>>
    ELSE IF Len(docs) = 1 THEN <<docs[1].page_content>>
    ELSE <<docs[1].page_content, BlankLine>> \o JoinContext(Tail(docs))

\* context.strip() is not empty
Truthy(context) == \E i \in 1..Len(context) : ~Blank(context[i])

\* The texts ask_question puts in front of the context (lines 163, 165 and
\* 168), each with the line breaks that end it.
CouldNotGenerate ==
    "I couldn't generate an answer. Here's the relevant context from your notes:"
ErrorGenerating ==
    "Error generating AI answer: <e> Relevant context from notes:"
RelevantInformation == "Relevant information from your notes:"

NotReadyResult == [ error |-> "Please setup vector store first!" ]

\* What the remote model does with a prompt: it raises, it answers with an
\* empty response, or it answers with a text.
GenOutcomes == { "raise", "empty", "text" }

\* The call of self.genai_model.generate_content(prompt) and what came of
\* it, as it appears in `calls`.
GenCall(gen) ==
    CASE gen = "text" -> "generate_content: text"
      [] gen = "empty" -> "generate_content: empty"
      [] OTHER -> "generate_content: raise"

\* Mutant of NotReady: the guard looks at the embedding model instead.
NotReadyByEmbeddings(self) == self.embeddings = None

\* if self.vector_store is None (line 128)
NotReady(self) == self.vector_store = None

\* The condition of line 138: a model handle is set and the context is
\* not blank.
UsesModel(self, context) == self.genai_model # None /\ Truthy(context)

\* Mutant of GenerateAnswer: the error text leaves the context out.
GenerateAnswerDropsContext(context, gen) ==
    CASE gen = "text" -> <<"<response.text>">>
      [] gen = "empty" -> <<CouldNotGenerate>> \o context
      [] OTHER -> <<ErrorGenerating>>

\* Lines 157-165: the answer after the generation call, with its two
\* fall-backs.
GenerateAnswer(context, gen) ==
    CASE gen = "text" -> <<"<response.text>">>
      [] gen = "empty" -> <<CouldNotGenerate>> \o context
      [] OTHER -> <<ErrorGenerating>> \o context

\* The result dictionary of lines 170-174.
Answered(self, question, answer, hits, calls) ==
    [ self |-> self, raised |-> FALSE,
      ret |-> [ question |-> question, answer |-> answer, sources |-> hits ],
      calls |-> calls, retrieved |-> hits ]

\* ask_question on the index `entries`.
ask_question(self, entries, question, k) ==
    IF NotReady(self)
    THEN { [ self |-> self, raised |-> FALSE, ret |-> NotReadyResult,
             calls |-> <<>>, retrieved |-> <<>> ] }
    ELSE { [ self |-> self, raised |-> TRUE, ret |-> NoValue,
             calls |-> <<"retriever.invoke">>, retrieved |-> <<>> ] }
         \cup
         UNION {
            LET context == JoinContext(hits)
            IN  IF UsesModel(self, context)
                THEN { Answered(self, question, GenerateAnswer(context, gen),
                                hits, <<"retriever.invoke", GenCall(gen)>>) :
                       gen \in GenOutcomes }
                ELSE { Answered(self, question,
                                <<RelevantInformation>> \o context,
                                hits, <<"retriever.invoke">>) } :
            hits \in Search(entries, k) }

----------------------------------------------------------------------------
(* The environment at start: the notes directory and the persist location *)

\* A chunk persisted by an earlier run of the program on an earlier corpus.
OldChunk ==
    [ page_content |-> "t0", unit |-> <<"unit0">>,
      source |-> <<"unit0", ".pdf">>, page |-> 0 ]

InitialIndexes == { NoIndex, [ exists |-> TRUE, entries |-> <<OldChunk>> ] }

InitEnv ==
    /\ notes \in Corpora
    /\ corrupt \in SUBSET { f \in Range(notes) : EndsWithPdf(f) }
    /\ persist \in InitialIndexes

\* The record of an operation: its name, its input, whether it raised,
\* what it returned, the external calls it made and, for a query, what the
\* retriever handed back.
NoCall ==
    [ op |-> "init", input |-> None, raised |-> FALSE, ret |-> NoValue,
      calls |-> <<>>, retrieved |-> <<>> ]

Called(op, input, r, retrieved) ==
    [ op |-> op, input |-> input, raised |-> r.raised, ret |-> r.ret,
      calls |-> r.calls, retrieved |-> retrieved ]

InitWeb ==
    /\ st_rag = <<>>
    /\ st_chat = <<>>
    /\ st_setup_done = FALSE
    /\ setup_runs = 0

\* StudyAssistantApp.__init__ up to the end of setup_ui(): the fields of lines
\* 10-11 and the widgets as setup_ui creates them.  A label or a pane
\* holds a sequence of text tokens.
NewApp ==
    [ rag_system |-> None, setup_complete |-> FALSE,
      question_entry |-> "", answer_button |-> "disabled",
      status_label |-> <<"Loading your study notes...">>,
      answer_text |-> <<>>, sources_text |-> <<>> ]

\* No desktop shell is running.
NoDesktop ==
    /\ app = NewApp
    /\ setup_thread = [ pc |-> "not started", e |-> "unbound" ]
    /\ workers = <<>>
    /\ after_queue = <<>>

----------------------------------------------------------------------------
(* SpecRag: one PDFNotesRAG object, its methods called in any order *)

InitRag ==
    /\ InitEnv
    /\ InitWeb
    /\ NoDesktop
    /\ rag = NewRAG
    /\ accepted = FALSE
    /\ last = NoCall

\* rag_system = PDFNotesRAG("./data")
Construct ==
    /\ rag' = NewRAG
    /\ accepted' = FALSE
    /\ last' = [ NoCall EXCEPT !.op = "PDFNotesRAG" ]
    /\ UNCHANGED <<envVars, tkVars, persist, webVars>>

LoadPdfs ==
    \E r \in load_pdfs(rag, notes, corrupt) :
        /\ Len(r.self.documents) <= MaxDocs
        /\ rag' = r.self
        /\ last' = Called("load_pdfs", None, r, <<>>)
        /\ UNCHANGED <<envVars, tkVars, persist, webVars, accepted>>

ChunkDocuments ==
    \E r \in chunk_documents(rag) :
        /\ rag' = r.self
        /\ last' = Called("chunk_documents", None, r, <<>>)
        /\ UNCHANGED <<envVars, tkVars, persist, webVars, accepted>>

SetupVectorStore ==
    \E r \in setup_vector_store(rag, persist) :
        /\ rag' = r.self
        /\ persist' = r.disk
        /\ last' = Called("setup_vector_store", None, r, <<>>)
        /\ UNCHANGED <<envVars, tkVars, webVars, accepted>>

SetupGeminiLlm ==
    \E r \in setup_gemini_llm(rag) :
        /\ rag' = r.self
        /\ accepted' = (accepted \/ r.ret.ok)
        /\ last' = Called("setup_gemini_llm", r.primary, r, <<>>)
        /\ UNCHANGED <<envVars, tkVars, persist, webVars>>

AskQuestion ==
    \E question \in Questions, k \in { 1, DefaultK } :
        \E r \in ask_question(rag, persist.entries, question, k) :
            /\ rag' = r.self
            /\ last' = Called("ask_question", question, r, r.retrieved)
            /\ UNCHANGED <<envVars, tkVars, persist, webVars, accepted>>

NextRag ==
    \/ Construct
    \/ LoadPdfs
    \/ ChunkDocuments
    \/ SetupVectorStore
    \/ SetupGeminiLlm
    \/ AskQuestion

SpecRag == InitRag /\ [][NextRag]_vars

----------------------------------------------------------------------------
(* SpecWeb: the Streamlit session shell (src/app.py).  Every UI event runs *)
(* the script from the top; st.experimental_rerun() at the end of a        *)
(* handler runs it once more with no button pressed.                       *)

\* What the session keeps across script runs, with the disk.
Session ==
    [ rag |-> st_rag, done |-> st_setup_done, runs |-> setup_runs,
      disk |-> persist ]

\* The body of setup_rag's try block (lines 85-89): the outcomes of
\* load_pdfs, chunk_documents, setup_vector_store and setup_gemini_llm on a
\* new PDFNotesRAG, [ok, rag, disk]; an exception of any of them ends it.
SetupPipeline(disk) ==
    UNION {
      IF r1.raised THEN { [ ok |-> FALSE, rag |-> NewRAG, disk |-> disk ] }
      ELSE UNION {
        UNION {
          IF r3.raised
          THEN { [ ok |-> FALSE, rag |-> NewRAG, disk |-> r3.disk ] }
          ELSE { [ ok |-> TRUE, rag |-> r4.self, disk |-> r3.disk ] :
                 r4 \in setup_gemini_llm(r3.self) } :
          r3 \in setup_vector_store(r2.self, disk) } :
        r2 \in chunk_documents(r1.self) } :
      r1 \in load_pdfs(NewRAG, notes, corrupt) }

\* setup_rag (lines 82-94): on success the object and the flag are stored
\* in the session; on an exception the error is shown and nothing is stored.
setup_rag(ses) ==
    { IF o.ok
      THEN [ rag |-> <<o.rag>>, done |-> TRUE, runs |-> ses.runs + 1,
             disk |-> o.disk ]
      ELSE [ ses EXCEPT !.runs = @ + 1, !.disk = o.disk ] :
      o \in SetupPipeline(ses.disk) }

\* Lines 96-97, at the top of every script run:
\* if not st.session_state.setup_done: setup_rag()
SetupIfNotDone(ses) == IF ~ses.done THEN setup_rag(ses) ELSE { ses }

\* The texts the send handler puts in the transcript.
NoAnswerFound == <<"No answer found.">>
ErrorEntry == [ role |-> "bot", content |-> <<"Error: ", "<e>">> ]

\* result.get("answer", "No answer found."), result.get("sources", [])
BotEntry(result) ==
    [ role |-> "bot",
      content |-> IF "answer" \in DOMAIN result THEN result.answer
                  ELSE NoAnswerFound,
      sources |-> IF "sources" \in DOMAIN result THEN result.sources
                  ELSE <<>> ]

\* st.session_state.rag.ask_question(prompt): on None the attribute access
\* raises; otherwise the outcomes of ask_question with the default k.
SessionAsk(ses, prompt) ==
    IF ses.rag = <<>>
    THEN { [ self |-> NewRAG, raised |-> TRUE, ret |-> NoValue,
             calls |-> <<>>, retrieved |-> <<>> ] }
    ELSE ask_question(ses.rag[1], ses.disk.entries, prompt, DefaultK)

\* Mutant of ReplyEntries: an exception of the query is swallowed.
ReplyEntriesDropError(r) == IF r.raised THEN <<>> ELSE <<BotEntry(r.ret)>>

\* The entry appended after the user entry (lines 129-135): the answer and
\* its sources, or the error when ask_question raised.
ReplyEntries(r) == IF r.raised THEN <<ErrorEntry>> ELSE <<BotEntry(r.ret)>>

\* The send handler's transcript (lines 127-135) after outcome r of the
\* query.
on_send(chat, prompt, r) ==
    Append(chat, [ role |-> "user", content |-> prompt ]) \o ReplyEntries(r)

\* The clear handler's transcript (line 123).
on_clear(chat) == <<>>

\* prompt.strip() is not empty
Accepted(prompt) == ~Blank(prompt)

Prompts == Questions \cup { " " }

\* The page has been rendered: the buttons exist once the script has run.
Rendered == last.op # "init"

InitSession ==
    /\ InitEnv
    /\ InitWeb
    /\ NoDesktop
    /\ rag = NewRAG
    /\ accepted = FALSE
    /\ last = NoCall

StoreSession(ses) ==
    /\ st_rag' = ses.rag
    /\ st_setup_done' = ses.done
    /\ setup_runs' = ses.runs
    /\ persist' = ses.disk

\* The record of a UI event: the setup_rag calls it made.
Event(op, prompt, r, before, after) ==
    [ op |-> op, input |-> prompt, raised |-> r.raised, ret |-> r.ret,
      calls |-> [ i \in 1..(after.runs - before.runs) |-> "setup_rag" ],
      retrieved |-> r.retrieved ]

NoQuery ==
    [ raised |-> FALSE, ret |-> NoValue, calls |-> <<>>, retrieved |-> <<>> ]

\* A script run with no button pressed: the page is opened, or a widget
\* other than the two buttons changed.
PlainRun ==
    \E ses \in SetupIfNotDone(Session) :
        /\ ses.runs <= MaxSetupRuns
        /\ StoreSession(ses)
        /\ last' = Event("run", None, NoQuery, Session, ses)
        /\ UNCHANGED <<envVars, tkVars, rag, accepted, st_chat>>

\* The Send button with a blank prompt: the script runs, line 126 is false.
SendBlank ==
    \E prompt \in { p \in Prompts : ~Accepted(p) } :
        \E ses \in SetupIfNotDone(Session) :
            /\ Rendered
            /\ ses.runs <= MaxSetupRuns
            /\ StoreSession(ses)
            /\ last' = Event("send", prompt, NoQuery, Session, ses)
            /\ UNCHANGED <<envVars, tkVars, rag, accepted, st_chat>>

\* The Send button with a question: the script runs down to the handler
\* (lines 126-135), which reruns the script (line 136).
Send ==
    \E prompt \in { p \in Prompts : Accepted(p) } :
        \E ses1 \in SetupIfNotDone(Session) :
            \E r \in SessionAsk(ses1, prompt) :
                \E ses2 \in SetupIfNotDone(ses1) :
                    /\ Rendered
                    /\ Len(st_chat) + 2 <= MaxChat
                    /\ ses2.runs <= MaxSetupRuns
                    /\ st_chat' = on_send(st_chat, prompt, r)
                    /\ StoreSession(ses2)
                    /\ last' = Event("send", prompt, r, Session, ses2)
                    /\ UNCHANGED <<envVars, tkVars, rag, accepted>>

\* The Clear Chat button: the script runs down to the handler (lines
\* 122-123), which reruns the script (line 124).
Clear ==
    \E ses1 \in SetupIfNotDone(Session) :
        \E ses2 \in SetupIfNotDone(ses1) :
            /\ Rendered
            /\ ses2.runs <= MaxSetupRuns
            /\ st_chat' = on_clear(st_chat)
            /\ StoreSession(ses2)
            /\ last' = Event("clear", None, NoQuery, Session, ses2)
            /\ UNCHANGED <<envVars, tkVars, rag, accepted>>

NextWeb ==
    \/ PlainRun
    \/ SendBlank
    \/ Send
    \/ Clear

SpecWeb == InitSession /\ [][NextWeb]_vars

----------------------------------------------------------------------------
(* SpecTk: the Tkinter desktop shell (src/tkview.py).  The main thread     *)
(* runs the Tk main loop: one event handler or one root.after callback at  *)
(* a time.  setup() and every process_question() run on threads of their   *)
(* own, whose steps interleave with the main loop's.                       *)

\* What the user types in the question entry (empty at start and after
\* Clear).
EntryTexts == { "q1" }

\* The notes directories the desktop shell is started on: those of at most
\* one file.
DesktopCorpora == { c \in Corpora : Len(c) <= 1 }

\* The callbacks handed to root.after(0, ...).  A lambda that names the
\* `e` of an except clause reads it when it runs, from the thread's frame.
StatusCallback(text) == [ fn |-> "status_label.config", text |-> text ]
SetupCompleteCallback == [ fn |-> "setup_complete_ui" ]
SetupFailedCallback == [ fn |-> "setup_failed_ui", e_of |-> "setup" ]
DisplayAnswerCallback(i, question, result) ==
    [ fn |-> "display_answer", question |-> question, result |-> result,
      worker |-> i ]
DisplayErrorCallback(i) == [ fn |-> "display_error", worker |-> i ]
EnableCallback(i) == [ fn |-> "enable_answer_button", worker |-> i ]

\* setup_complete_ui
setup_complete_ui(self) ==
    [self EXCEPT !.status_label = <<"System ready! Ask your question.">>,
                 !.answer_button = "normal"]

\* setup_failed_ui
setup_failed_ui(self, error) ==
    [self EXCEPT !.status_label = <<"Setup failed:", error>>]

\* The lines display_answer writes in the sources pane.
SourceLines(sources) ==
    <<[ header |-> "Sources:" ]>> \o
    [ i \in 1..Len(sources) |->
        [ source |-> i, unit |-> sources[i].unit,
          page |-> sources[i].page + 1 ] ]

CouldNotFind == "Sorry, I couldn't find an answer to that question."

\* display_answer
display_answer(self, question, result) ==
    LET head == <<"Question:", question, "Answer:">>
    IN  IF "error" \notin DOMAIN result
        THEN [self EXCEPT !.answer_text = head \o result.answer,
                          !.sources_text = SourceLines(result.sources),
                          !.status_label = <<"Answer ready!">>]
        ELSE [self EXCEPT !.answer_text = head \o <<CouldNotFind>>,
                          !.sources_text = <<>>,
                          !.status_label = <<"Answer ready!">>]

\* display_error
display_error(self, error) ==
    [self EXCEPT !.answer_text = <<"Error:", error>>,
                 !.sources_text = <<>>,
                 !.status_label = <<"Error occurred">>]

\* enable_answer_button
enable_answer_button(self) == [self EXCEPT !.answer_button = "normal"]

\* clear_chat
clear_chat(self) ==
    [self EXCEPT !.question_entry = "",
                 !.answer_text = <<>>,
                 !.sources_text = <<>>,
                 !.status_label = <<"System ready! Ask your question.">>]

\* A thread of process_question as threading.Thread starts it.  `shown`
\* and `enabled` record that the thread's display callback has put its
\* outcome in the panes and that its enable_answer_button callback has run.
NewWorker(question) ==
    [ question |-> question, pc |-> "ask_question", e |-> "unbound",
      shown |-> FALSE, enabled |-> FALSE ]

\* get_answer on the main thread: the app after it, the warning shown and
\* the threads started.
get_answer(self) ==
    IF ~self.setup_complete
    THEN [ self |-> self, warning |-> "System Not Ready", started |-> <<>> ]
    ELSE IF Blank(self.question_entry)
    THEN [ self |-> self, warning |-> "Empty Question", started |-> <<>> ]
    ELSE [ self |-> [self EXCEPT
                        !.answer_button = "disabled",
                        !.status_label = <<"Searching through your notes...">>],
           warning |-> None,
           started |-> <<NewWorker(self.question_entry)>> ]

\* The record of a step of the desktop shell: the thread it ran on.
Step(thread) == [ op |-> "desktop", thread |-> thread ]

InitTk ==
    /\ InitEnv
    /\ notes \in DesktopCorpora
    /\ InitWeb
    /\ rag = NewRAG
    /\ accepted = FALSE
    /\ app = NewApp
    /\ setup_thread = [ pc |-> "PDFNotesRAG", e |-> "unbound" ]
    /\ workers = <<>>
    /\ after_queue = <<>>
    /\ last = Step("main")

\* root.after(0, callback), from any thread.
After(callback) == after_queue' = Append(after_queue, callback)

\* What setup() does after a call of the pipeline: it goes on to the next
\* line with the next status text, or it enters the except clause (lines
\* 179-180), which binds `e` and hands the lambda to root.after.
SetupGoesOn(raised, next, text) ==
    IF raised
    THEN /\ setup_thread' = [ pc |-> "end of except", e |-> "bound" ]
         /\ After(SetupFailedCallback)
    ELSE /\ setup_thread' = [ pc |-> next, e |-> "unbound" ]
         /\ After(StatusCallback(text))

\* Lines 155-158, on the setup thread.
SetupConstruct ==
    /\ setup_thread.pc = "PDFNotesRAG"
    /\ rag' = NewRAG
    /\ app' = [app EXCEPT !.rag_system = "PDFNotesRAG"]
    /\ SetupGoesOn(FALSE, "load_pdfs", "Loading PDFs...")
    /\ last' = Step("setup")
    /\ UNCHANGED <<envVars, persist, webVars, accepted, workers>>

\* Lines 159-162.
SetupLoadPdfs ==
    /\ setup_thread.pc = "load_pdfs"
    /\ \E r \in load_pdfs(rag, notes, corrupt) :
        /\ rag' = r.self
        /\ SetupGoesOn(r.raised, "chunk_documents", "Processing text...")
    /\ last' = Step("setup")
    /\ UNCHANGED <<envVars, persist, webVars, accepted, app, workers>>

\* Lines 163-166.
SetupChunkDocuments ==
    /\ setup_thread.pc = "chunk_documents"
    /\ \E r \in chunk_documents(rag) :
        /\ rag' = r.self
        /\ SetupGoesOn(r.raised, "setup_vector_store",
                       "Creating search index...")
    /\ last' = Step("setup")
    /\ UNCHANGED <<envVars, persist, webVars, accepted, app, workers>>

\* Lines 167-170.
SetupSetupVectorStore ==
    /\ setup_thread.pc = "setup_vector_store"
    /\ \E r \in setup_vector_store(rag, persist) :
        /\ rag' = r.self
        /\ persist' = r.disk
        /\ SetupGoesOn(r.raised, "setup_gemini_llm", "Connecting to AI...")
    /\ last' = Step("setup")
    /\ UNCHANGED <<envVars, webVars, accepted, app, workers>>

\* Lines 171-177: the value of ai_ready is not looked at.
SetupSetupGeminiLlm ==
    /\ setup_thread.pc = "setup_gemini_llm"
    /\ \E r \in setup_gemini_llm(rag) :
        /\ rag' = r.self
        /\ accepted' = (accepted \/ r.ret.ok)
    /\ app' = [app EXCEPT !.setup_complete = TRUE]
    /\ setup_thread' = [ pc |-> "done", e |-> "unbound" ]
    /\ After(SetupCompleteCallback)
    /\ last' = Step("setup")
    /\ UNCHANGED <<envVars, persist, webVars, workers>>

\* The end of the except clause of line 179: `e` is unbound.
SetupEndOfExcept ==
    /\ setup_thread.pc = "end of except"
    /\ setup_thread' = [ pc |-> "done", e |-> "unbound" ]
    /\ last' = Step("setup")
    /\ UNCHANGED <<envVars, persist, webVars, rag, accepted, app, workers,
                   after_queue>>

\* Lines 213-220 on the thread of the i-th query: ask_question, then the
\* lambda of line 217 or, in the except clause, the lambda of line 220.
AskOnThread(i) ==
    /\ workers[i].pc = "ask_question"
    /\ \E r \in ask_question(rag, persist.entries, workers[i].question,
                             DefaultK) :
        /\ rag' = r.self
        /\ IF r.raised
           THEN /\ workers' = [workers EXCEPT ![i].pc = "finally",
                                              ![i].e = "bound"]
                /\ After(DisplayErrorCallback(i))
           ELSE /\ workers' = [workers EXCEPT ![i].pc = "finally"]
                /\ After(DisplayAnswerCallback(i, workers[i].question,
                                               r.ret))
    /\ last' = Step("query")
    /\ UNCHANGED <<envVars, persist, webVars, accepted, app, setup_thread>>

\* A step of some query thread at line 214.
WorkerAskQuestion == \E i \in 1..Len(workers) : AskOnThread(i)

\* The end of the try statement: `e` is unbound where the except clause
\* ran, then the finally clause (lines 221-222).
FinallyOnThread(i) ==
    /\ workers[i].pc = "finally"
    /\ workers' = [workers EXCEPT ![i].pc = "done", ![i].e = "unbound"]
    /\ After(EnableCallback(i))
    /\ last' = Step("query")
    /\ UNCHANGED <<envVars, persist, webVars, rag, accepted, app,
                   setup_thread>>

\* A step of some query thread at the end of its try statement.
WorkerFinally == \E i \in 1..Len(workers) : FinallyOnThread(i)

\* str(e) of the exception a thread caught.
StrE == "<str(e)>"

\* The callback run by the main loop: the app after it.  A lambda of line
\* 180 or 220 that runs after its thread has left the except clause finds
\* `e` unbound and raises NameError, which Tk reports on stderr: the
\* method it was to call is not called.
RunOn(self, callback) ==
    CASE callback.fn = "status_label.config" ->
            [self EXCEPT !.status_label = <<callback.text>>]
      [] callback.fn = "setup_complete_ui" -> setup_complete_ui(self)
      [] callback.fn = "setup_failed_ui" ->
            IF setup_thread.e = "bound"
            THEN setup_failed_ui(self, StrE)
            ELSE self
      [] callback.fn = "display_answer" ->
            display_answer(self, callback.question, callback.result)
      [] callback.fn = "display_error" ->
            IF workers[callback.worker].e = "bound"
            THEN display_error(self, StrE)
            ELSE self
      [] OTHER -> enable_answer_button(self)

\* The display callback puts the outcome of its query in the panes.
Shows(callback) ==
    \/ callback.fn = "display_answer"
    \/ callback.fn = "display_error" /\ workers[callback.worker].e = "bound"

\* The main loop runs the oldest callback of root.after.
MainLoopCallback ==
    /\ after_queue # <<>>
    /\ LET callback == Head(after_queue)
       IN  /\ app' = RunOn(app, callback)
           /\ workers' =
                IF Shows(callback)
                THEN [workers EXCEPT ![callback.worker].shown = TRUE]
                ELSE IF callback.fn = "enable_answer_button"
                THEN [workers EXCEPT ![callback.worker].enabled = TRUE]
                ELSE workers
    /\ after_queue' = Tail(after_queue)
    /\ last' = Step("main")
    /\ UNCHANGED <<envVars, persist, webVars, rag, accepted, setup_thread>>

\* The user edits the question entry.
TypeQuestion ==
    \E text \in EntryTexts :
        /\ app.question_entry # text
        /\ app' = [app EXCEPT !.question_entry = text]
        /\ last' = Step("main")
        /\ UNCHANGED <<envVars, persist, webVars, rag, accepted,
                       setup_thread, workers, after_queue>>

\* get_answer as an event handler: threading.Thread(...).start() of lines
\* 225-227 adds the thread.
GetAnswer ==
    LET r == get_answer(app)
    IN  /\ Len(workers) + Len(r.started) <= MaxQueries
        /\ app' = r.self
        /\ workers' = workers \o r.started
        /\ last' = Step("main")
        /\ UNCHANGED <<envVars, persist, webVars, rag, accepted,
                       setup_thread, after_queue>>

\* A click on the Get Answer button (command=self.get_answer, line 75):
\* Tk delivers it only while the button is not disabled.
ClickGetAnswer ==
    /\ app.answer_button = "normal"
    /\ GetAnswer

\* The Return key in the question entry: the binding of line 65 runs
\* lambda e: self.get_answer(), whatever the state of the button.
PressReturn ==
    /\ GetAnswer

\* A click on the Clear button (command=self.clear_chat, line 87).
ClickClear ==
    /\ app' = clear_chat(app)
    /\ last' = Step("main")
    /\ UNCHANGED <<envVars, persist, webVars, rag, accepted, setup_thread,
                   workers, after_queue>>

NextTk ==
    \/ SetupConstruct
    \/ SetupLoadPdfs
    \/ SetupChunkDocuments
    \/ SetupSetupVectorStore
    \/ SetupSetupGeminiLlm
    \/ SetupEndOfExcept
    \/ WorkerAskQuestion
    \/ WorkerFinally
    \/ MainLoopCallback
    \/ TypeQuestion
    \/ ClickGetAnswer
    \/ PressReturn
    \/ ClickClear

SpecTk == InitTk /\ [][NextTk]_vars

----------------------------------------------------------------------------
(* Properties of PDFNotesRAG, checked under SpecRag *)

\* The external calls of the last operation.
Made(call) == call \in Range(last.calls)

GenerationCalled == \E g \in GenOutcomes : Made(GenCall(g))

\* C1: ask_question called while vector_store is None hands the NotReady
\* result back to its caller and does no partial work: it makes no
\* retrieval and no generation call, and it changes no field of the
\* PDFNotesRAG object (nor the persisted index).
C1_NotReadyNoPartialWork ==
    [][ (last'.op = "ask_question" /\ rag.vector_store = None)
        => /\ ~last'.raised
           /\ last'.ret = NotReadyResult
           /\ last'.calls = <<>>
           /\ rag' = rag
           /\ persist' = persist ]_vars

\* C1 witness: a query on an object that has loaded its documents and has
\* a model handle, but no vector store, came back NotReady.
C1_Witness ==
    /\ last.op = "ask_question"
    /\ rag.vector_store = None
    /\ rag.documents # <<>>
    /\ rag.genai_model # None
    /\ ~last.raised
    /\ last.ret = NotReadyResult

\* C2: when the generation call of ask_question raises or returns an empty
\* response, ask_question does not raise: it returns {question, answer,
\* sources} whose answer is the labelled raw context (the label followed by
\* the concatenated retrieved context) and whose sources are the retrieved
\* chunks.
C2_GenerationFailureFallsBack ==
    (last.op = "ask_question"
     /\ (Made(GenCall("raise")) \/ Made(GenCall("empty"))))
    => /\ ~last.raised
       /\ DOMAIN last.ret = { "question", "answer", "sources" }
       /\ last.ret.question = last.input
       /\ last.ret.sources = last.retrieved
       /\ \E label \in { CouldNotGenerate, ErrorGenerating } :
             last.ret.answer = <<label>> \o JoinContext(last.retrieved)

\* C2 witness: the generation call raised on a context of two chunks and
\* the query returned.
C2_Witness ==
    /\ last.op = "ask_question"
    /\ Made(GenCall("raise"))
    /\ rag.vector_store # None
    /\ rag.genai_model # None
    /\ Len(last.retrieved) = 2
    /\ ~last.raised

\* C3: while no setup_gemini_llm call has returned True, every ask_question
\* that returns an answer runs in retrieval-only mode: it makes no call to
\* the remote generation model and its answer is the raw concatenated
\* context.
C3_RetrievalOnlyWithoutBackend ==
    (last.op = "ask_question" /\ ~accepted /\ ~last.raised /\ ~NotReady(rag))
    => /\ ~GenerationCalled
       /\ last.ret.answer
            = <<RelevantInformation>> \o JoinContext(last.retrieved)

FallbackAttempts ==
    Cardinality({ i \in 1..Len(last.calls) : last.calls[i] = NewFallbackModel })

\* C4: setup_gemini_llm attempts the primary model first; on any failure
\* to accept the primary (an error raised, or a probe without a non-empty
\* response) it attempts the fallback exactly once; it returns False only
\* after both were attempted; it never raises.
C4_FallbackOnAnyPrimaryFailure ==
    last.op = "setup_gemini_llm"
    => /\ ~last.raised
       /\ Head(last.calls) = "genai.configure"
       /\ (last.input = "probe ok" => last.ret.ok /\ FallbackAttempts = 0)
       /\ (last.input # "probe ok" => FallbackAttempts = 1)
       /\ (~last.ret.ok => FallbackAttempts = 1)

\* C5: setup_vector_store called against a persist location that already
\* holds an index loads it: nothing is embedded, no entry is added, and
\* the entries after the call are the entries before it.
C5_BuildIdempotent ==
    [][ (last'.op = "setup_vector_store" /\ persist.exists)
        => /\ persist' = persist
           /\ "embed_documents" \notin Range(last'.calls)
           /\ "Chroma.from_documents" \notin Range(last'.calls)
           /\ (~last'.raised => rag'.vector_store = "chroma") ]_vars

\* C5 witness: a second setup_vector_store loaded the index that a first
\* one had built from the same, non-empty, chunk list.
C5_Witness ==
    /\ last.op = "setup_vector_store"
    /\ ~last.raised
    /\ Made("Chroma")
    /\ rag.chunks # <<>>
    /\ persist.entries = rag.chunks

\* The answer that states that no relevant information was found.
NothingFound == <<"No relevant information was found.">>

\* C8: with an empty notes directory and no persisted index, load_pdfs
\* returns no documents, chunk_documents no chunks, setup_vector_store
\* leaves an empty index, every search returns nothing, and ask_question
\* returns an answer stating that no relevant information was found, with
\* no sources.
C8_EmptyCorpus ==
    (notes = <<>> /\ persist.entries = <<>> /\ ~last.raised)
    => /\ (last.op = "load_pdfs" => last.ret.list = <<>>)
       /\ (last.op = "chunk_documents" => last.ret.list = <<>>)
       /\ (last.op = "setup_vector_store" => persist.exists)
       /\ (last.op = "ask_question" /\ ~NotReady(rag)
           => /\ last.retrieved = <<>>
              /\ last.ret.sources = <<>>
              /\ last.ret.answer = NothingFound)

\* The file name minus its extension.
StripExtension(filename) == SubSeq(filename, 1, Len(filename) - 1)

\* The files of the directory that load_pdfs parses.
Parsed == SelectSeq(notes, LAMBDA f : EndsWithPdf(f) /\ f \notin corrupt)

RECURSIVE SumPages(_)
SumPages(files) ==
    IF files = <<>> THEN 0
    ELSE Len(PagesOf(Head(files))) + SumPages(Tail(files))

\* C9: load_pdfs skips a PDF that fails to parse and loads every other
\* one: the documents it adds are one per page of each file that parsed,
\* none of a failing file, each tagged with its file name minus extension
\* as unit.
C9_LoadSkipsFailures ==
    [][ (last'.op = "load_pdfs" /\ ~last'.raised)
        => LET added == SubSeq(rag'.documents, Len(rag.documents) + 1,
                               Len(rag'.documents))
           IN  /\ Len(added) = SumPages(Parsed)
               /\ \A f \in Range(Parsed) :
                     Cardinality({ i \in 1..Len(added) : added[i].source = f })
                       = Len(PagesOf(f))
               /\ \A i \in 1..Len(added) :
                     /\ added[i].source \notin corrupt
                     /\ added[i].unit = StripExtension(added[i].source) ]_vars

----------------------------------------------------------------------------
(* Properties of the session shell, checked under SpecWeb *)

IsPrefix(s, t) == Len(s) <= Len(t) /\ SubSeq(t, 1, Len(s)) = s

\* Even length, a user entry at every odd place and a reply after it.
Alternates(chat) ==
    /\ Len(chat) % 2 = 0
    /\ \A i \in 1..Len(chat) :
          chat[i].role = IF i % 2 = 1 THEN "user" ELSE "bot"

\* C6: every accepted submission appends exactly one user entry and then
\* exactly one reply entry, the answer with its sources when ask_question
\* returned, the error entry when it raised; no event but a clear modifies
\* or removes an earlier entry; the transcript always has even length with
\* user and reply entries alternating.
C6_TranscriptAppendOnly ==
    /\ []Alternates(st_chat)
    /\ [][ /\ (last'.op = "send" /\ Accepted(last'.input))
              => LET n == Len(st_chat)
                 IN  /\ Len(st_chat') = n + 2
                     /\ st_chat'[n + 1]
                          = [ role |-> "user", content |-> last'.input ]
                     /\ st_chat'[n + 2]
                          = IF last'.raised THEN ErrorEntry
                            ELSE [ role |-> "bot",
                                   content |-> last'.ret.answer,
                                   sources |-> last'.ret.sources ]
           /\ (last'.op # "clear" => IsPrefix(st_chat, st_chat')) ]_vars

\* C6 witness: two submissions, the first answered by the error entry (no
\* retrieval object yet), the second by an answer with its sources.
C6_Witness ==
    /\ Len(st_chat) = 4
    /\ st_chat[2] = ErrorEntry
    /\ "sources" \in DOMAIN st_chat[4]
    /\ st_chat[4].sources # <<>>

\* C7: the clear action leaves no chat entry, and it leaves the retrieval
\* object and the setup-done flag as they were: it triggers no setup.
C7_ClearLeavesSetupAlone ==
    [][ last'.op = "clear"
        => /\ st_chat' = <<>>
           /\ st_rag' = st_rag
           /\ st_setup_done' = st_setup_done
           /\ setup_runs' = setup_runs ]_vars

\* C10: the one-time setup is attempted at most once in a session: no
\* later event starts it again, whether it failed or succeeded.
C10_SetupAtMostOnce == setup_runs <= 1

----------------------------------------------------------------------------
(* Properties of the desktop shell, checked under SpecTk *)

\* The thread of the i-th query has ended and the main loop has run every
\* callback it handed to root.after: nothing of the query is left to run.
Finished(i) ==
    /\ workers[i].pc = "done"
    /\ \A j \in 1..Len(after_queue) :
          "worker" \in DOMAIN after_queue[j] => after_queue[j].worker # i

\* C11: a failure during one query leaves the UI usable for the next:
\* whether ask_question returns or raises, the result or the error is
\* displayed and the answer button is re-enabled.  Only the callbacks of a
\* query display its outcome and re-enable the button on its behalf, so
\* once the query has nothing left to run both have happened.
C11_QueryOutcomeDisplayed ==
    \A i \in 1..Len(workers) :
        Finished(i) => workers[i].shown /\ workers[i].enabled

\* The queries whose thread has not ended.
InFlight == { i \in 1..Len(workers) : workers[i].pc # "done" }

\* C12: at most one query is in flight at any time, whatever the user
\* does (Get Answer, Return, Clear) and whenever the threads end; and no
\* query thread is started before setup has completed.
C12_OneQueryInFlight ==
    /\ Cardinality(InFlight) <= 1
    /\ workers # <<>> => setup_thread.pc = "done" /\ app.setup_complete

\* The state the UI thread reads: the widgets, the setup_complete flag and
\* the rag_system handle.
SharedWithUi ==
    <<app.status_label, app.answer_text, app.sources_text,
      app.answer_button, app.setup_complete, app.rag_system>>

\* C13: the setup thread and the query threads never change the state
\* shared with the UI thread themselves: every change of it is made on
\* the main thread (by a callback handed to root.after or by an event
\* handler), so the main thread is its single writer.
C13_MainThreadSingleWriter ==
    [][SharedWithUi' # SharedWithUi => last'.thread = "main"]_vars

====
